---- MODULE Spec2Model ----
(***************************************************************************)
(* Jira Label Bulk Modify: the run of main(), the batch runner and batch   *)
(* processor of LabelProcessor, the three remote operations of             *)
(* JiraApiClient and the retry_on_error wrapper around each of them.       *)
(*                                                                         *)
(* The program is single-threaded.  One action is one step of that thread  *)
(* between two interactions with the remote service: a remote request      *)
(* together with everything the client and the retry wrapper do with its   *)
(* answer, or a stretch of main / runner / processor code up to the next   *)
(* remote call.                                                            *)
(***************************************************************************)
EXTENDS Integers, Sequences, FiniteSets, TLC

\* ---------------------------------------------------------------- config
\* config.py: the defaults of the environment-configured settings.
MAX_RETRIES == 3
RATE_LIMIT_PAUSE == 1

\* ---------------------------------------------------------------- bounds
\* 429 answers the remote gives within one wrapped call: of a stand-alone
\* client call, and of a call made within a run.
MaxRateLimits == 2
MaxRunRateLimits == 1
\* Largest configured page size (MAX_RESULTS_PER_PAGE) explored.
MaxPageSize == 2
\* Largest number of remote issues matching a query in a stand-alone client call.
MaxTotal == 5
\* Answers other than 200 are injected in searches and in the calls for the
\* issues with a key up to this one.
MaxFaultyKey == 2
\* The longest label list of an input file that is loaded.
MaxRawLen == 2
\* The longest list the remote grows to while it is searched.
MaxGrown == 3
\* A Retry-After header value the remote may send with a 429.
RetryAfterSecs == 5

BatchNames == {"A", "B"}
Types == {"Bug", "Task"}

\* Marks an absent Retry-After header.
NoHeader == -1

VARIABLES
    store,        \* the input file: the sequence of batch records on disk
    input,        \* the content of the input file when the run started
    inputOk,      \* whether the input file can be opened, parsed and validated
    args,         \* command line: [batch, dry_run, force]
    batches,      \* main's list `batches`
    pc,           \* position of the thread of control
    exitCode,     \* -1 while running, else the process exit code
    bi,           \* process_all_batches: index of the current batch
    ii,           \* process_batch: index of the current issue
    issues,       \* process_batch: the issue list the search returned
    progress,     \* process_batch: the progress map
    results,      \* process_batch: the results dict
    summary,      \* process_all_batches: the results dict
    files,        \* the artifacts written: progress, results, final
    cache,        \* JiraApiClient.editability_cache
    remote,       \* the remote service: its issues (key, type, labels)
    pageSize,     \* config.MAX_RESULTS_PER_PAGE
    call,         \* the wrapped client call in progress (retry_on_error.wrapper frame)
    called,       \* per batch name, the remote operations requested for it
    editOk        \* per issue type, the editmeta requests answered 200

vars == <<store, input, inputOk, args, batches, pc, exitCode, bi, ii, issues,
          progress, results, summary, files, cache, remote, pageSize, call,
          called, editOk>>

mainVars == <<store, input, inputOk, args, batches, exitCode>>
runVars == <<bi, ii, issues, progress, results, summary, files>>

\* ---------------------------------------------------------------- helpers
Range(s) == {s[i] : i \in 1..Len(s)}

Min(a, b) == IF a < b THEN a ELSE b

RECURSIVE Pow2(_)
Pow2(n) == IF n = 0 THEN 1 ELSE 2 * Pow2(n - 1)

\* A dict with no key.
EmptyMap == [k \in {} |-> 0]

\* d[k] = v on a dict d.
Put(d, k, v) == [x \in DOMAIN d \cup {k} |-> IF x = k THEN v ELSE d[x]]

\* ---------------------------------------------------------------- errors
\* JiraAPIError.__init__(status_code, message, response_text=None): the
\* exception a raise statement produces, given the keyword arguments it
\* passes.  A keyword the constructor does not take makes the raise
\* statement raise TypeError instead.
JiraAPIError(status_code, kwargs) ==
    IF kwargs \subseteq {"response_text"}
    THEN [type |-> "JiraAPIError", status_code |-> status_code]
    ELSE [type |-> "TypeError", status_code |-> 0]

\* A transport-level fault raised by the HTTP library.
TransportFault == [type |-> "RequestException", status_code |-> 0]

\* ---------------------------------------------------------------- wrapper
\* The frame of retry_on_error.wrapper around one client call.
\*   retries   the wrapper's counter
\*   attempts  invocations of the wrapped function so far
\*   n429      429 answers received in this call
\*   nFail     other failures (non-429 status, transport fault) in this call
\*   sleeps    every time.sleep of the wrapper in this call, in order: [why, secs]
\*   pauses    the time.sleep(RATE_LIMIT_PAUSE) calls of the current invocation
\*             of execute_jql_query, each of RATE_LIMIT_PAUSE seconds
\*   rlHeaders the retry_after modify_issue_labels read from each 429, in order
\*   start_at, total_issues, offsets: locals of execute_jql_query and the
\*             startAt of each request of its current invocation
\*   payload   update["labels"] of the last request modify_issue_labels sent
\*   meta      the edit metadata check_label_editability last received
\*   denied    every answer of this call that was a failure was a 401 or 403
NoCall ==
    [op |-> "none", state |-> "idle", retries |-> 0, attempts |-> 0,
     n429 |-> 0, nFail |-> 0, sleeps |-> <<>>, rlHeaders |-> <<>>,
     start_at |-> 0, total_issues |-> <<>>, offsets |-> <<>>, pauses |-> 0,
     key |-> 0, type |-> "", add |-> <<>>, remove |-> <<>>, value |-> FALSE,
     payload |-> <<>>,
     meta |-> [hasFields |-> FALSE, hasLabels |-> FALSE, operations |-> {}],
     denied |-> TRUE]

\* wrapper entered: retries = 0 and the first invocation of func begins.
NewCall(op, key, type, add, remove) ==
    [NoCall EXCEPT !.op = op, !.state = "running", !.attempts = 1,
                   !.key = key, !.type = type, !.add = add, !.remove = remove]

Sleep(c, why, secs) == [c EXCEPT !.sleeps = Append(@, [why |-> why, secs |-> secs])]

\* Mutant of Reinvoke: the accumulator of the failed invocation is kept.
Reinvoke_KeepsAccumulator(c) ==
    [c EXCEPT !.attempts = @ + 1, !.start_at = 0, !.offsets = <<>>, !.pauses = 0]

\* func is invoked again, with fresh locals.
Reinvoke(c) ==
    [c EXCEPT !.attempts = @ + 1, !.start_at = 0, !.total_issues = <<>>,
              !.offsets = <<>>, !.pauses = 0]

\* Mutant of Backoff: the wait grows by RATE_LIMIT_PAUSE with each retry.
Backoff_Linear(retries) == RATE_LIMIT_PAUSE * (retries + 1)

\* wait_time = RATE_LIMIT_PAUSE * (2 ** retries)
Backoff(retries) == RATE_LIMIT_PAUSE * Pow2(retries)

\* int(getattr(e, 'retry_after', RATE_LIMIT_PAUSE * 2)): no JiraAPIError
\* object carries the attribute, so the default is what the wrapper reads.
RetryAfterOf(exc) == RATE_LIMIT_PAUSE * 2

\* while retries <= MAX_RETRIES: the next iteration invokes func again; past
\* the loop the wrapper raises Exception("Failed after ... retries").
Loop(c) == IF c.retries <= MAX_RETRIES THEN Reinvoke(c) ELSE [c EXCEPT !.state = "raised"]

\* Mutant of OnException: a failed attempt is retried without retries += 1.
OnException_NoCount(c, exc) ==
    IF exc.type = "JiraAPIError" /\ exc.status_code = 429
    THEN Loop(Sleep(c, "ratelimit", RetryAfterOf(exc)))
    ELSE IF c.retries < MAX_RETRIES
         THEN Loop(Sleep(c, "backoff", Backoff(c.retries)))
         ELSE [c EXCEPT !.state = "raised"]

\* The except clauses of wrapper, applied to the exception `exc` that the
\* invocation of func raised in frame c.
OnException(c, exc) ==
    IF exc.type = "JiraAPIError"
    THEN IF exc.status_code = 429
         THEN Loop(Sleep(c, "ratelimit", RetryAfterOf(exc)))
         ELSE IF c.retries < MAX_RETRIES
              THEN Loop([Sleep(c, "backoff", Backoff(c.retries))
                            EXCEPT !.retries = @ + 1])
              ELSE [c EXCEPT !.state = "raised"]
    ELSE IF c.retries < MAX_RETRIES
         THEN Loop([Sleep(c, "backoff", Backoff(c.retries))
                       EXCEPT !.retries = @ + 1])
         ELSE [c EXCEPT !.state = "raised"]

\* Mutant of HandleErrorExits: a 401 or 403 always ends the process.
HandleErrorExits_Always(status, exit_on_critical) == status \in {401, 403}

\* handle_error: sys.exit on a critical error (401, 403) if exit_on_critical.
HandleErrorExits(status, exit_on_critical) ==
    exit_on_critical /\ status \in {401, 403}

\* The error branch of the client's methods for an answer with a status
\* they do not accept: handle_error(response, exit_on_critical=False), then
\* raise JiraAPIError(status, message, response.text) into the wrapper. A
\* frame whose handle_error ends the process is "exited".
OnErrorStatus(c, status) ==
    IF HandleErrorExits(status, FALSE)
    THEN [c EXCEPT !.state = "exited"]
    ELSE OnException(c, JiraAPIError(status, {"response_text"}))

\* return func(...)
OnReturn(c, v) == [c EXCEPT !.state = "returned", !.value = v]

\* ---------------------------------------------------------------- remote
\* What the remote can answer to one request: an HTTP status, with or
\* without a Retry-After header on a 429; or no answer at all.
StatusCodes == {200, 204, 401, 403, 429, 500}

Answers ==
    {[kind |-> "http", status |-> s, retryAfter |-> NoHeader] : s \in StatusCodes}
    \cup {[kind |-> "http", status |-> 429, retryAfter |-> RetryAfterSecs]}
    \cup {[kind |-> "fault", status |-> 0, retryAfter |-> NoHeader]}

\* The bookkeeping of an answer in the frame: which answers were 429s.
Count(c, ans) ==
    IF ans.kind = "http" /\ ans.status = 429
    THEN [c EXCEPT !.n429 = @ + 1, !.denied = FALSE]
    ELSE [c EXCEPT !.nFail = @ + 1,
                   !.denied = @ /\ ans.kind = "http" /\ ans.status \in {401, 403}]

\* response.headers.get("Retry-After", RATE_LIMIT_PAUSE * 2), as modify_issue_labels reads it.
RetryAfterHeader(ans) ==
    IF ans.retryAfter = NoHeader THEN RATE_LIMIT_PAUSE * 2 ELSE ans.retryAfter

\* The remote is asked for no more than MaxRateLimits 429s per call, and for
\* answers other than 200 only in calls for keys up to MaxFaultyKey (the
\* search has key 0).
Allowed(c, ans) ==
    /\ (ans.kind = "fault" \/ ans.status # 200) => c.key <= MaxFaultyKey
    /\ (ans.kind = "http" /\ ans.status = 429) =>
            c.n429 < (IF pc = "client" THEN MaxRateLimits ELSE MaxRunRateLimits)

\* The page of the search result starting at offset: items and total.
Page(offset, size) ==
    SubSeq(remote, offset + 1, Min(offset + size, Len(remote)))

\* The edit metadata the remote may report for the labels field.
EditMetas ==
    {[hasFields |-> FALSE, hasLabels |-> FALSE, operations |-> {}],
     [hasFields |-> TRUE, hasLabels |-> FALSE, operations |-> {}]}
    \cup {[hasFields |-> TRUE, hasLabels |-> TRUE, operations |-> ops] :
            ops \in SUBSET {"add", "remove"}}

\* The remote applies the operations of an update in order: adds, then removes.
ApplyUpdate(labels, add, remove) == (labels \cup Range(add)) \ Range(remove)

\* ---------------------------------------------------------------- client
Running(op) == call.op = op /\ call.state = "running"

Note(op) ==
    IF pc \in {"search", "issue", "edit", "update"} /\ bi \in 1..Len(batches)
    THEN called' = [called EXCEPT ![batches[bi].batchName] = @ \cup {op}]
    ELSE UNCHANGED called

\* Mutant of SearchStep: the loop ends on start_at + max_results > total.
SearchStep_Gt(c, ans) ==
    LET c1 == [c EXCEPT !.offsets = Append(@, c.start_at)] IN
    IF ans.kind = "fault"
    THEN OnException(Count(c1, ans), TransportFault)
    ELSE IF ans.status # 200
    THEN OnErrorStatus(Count(c1, ans), ans.status)
    ELSE LET c2 == [c1 EXCEPT !.total_issues = @ \o Page(c.start_at, pageSize)] IN
         IF c.start_at + pageSize > Len(remote)
         THEN OnReturn(c2, FALSE)
         ELSE [c2 EXCEPT !.start_at = @ + pageSize, !.pauses = @ + 1]

\* execute_jql_query: one request of the pagination loop and what follows
\* it up to the next request, the return or the exception.
SearchStep(c, ans) ==
    LET c1 == [c EXCEPT !.offsets = Append(@, c.start_at)] IN
    IF ans.kind = "fault"
    THEN OnException(Count(c1, ans), TransportFault)
    ELSE IF ans.status # 200
    THEN OnErrorStatus(Count(c1, ans), ans.status)
    ELSE LET c2 == [c1 EXCEPT !.total_issues = @ \o Page(c.start_at, pageSize)] IN
         IF c.start_at + pageSize >= Len(remote)
         THEN OnReturn(c2, FALSE)
         ELSE [c2 EXCEPT !.start_at = @ + pageSize, !.pauses = @ + 1]

SearchRequest ==
    /\ Running("search")
    /\ \E ans \in Answers :
        /\ Allowed(call, ans)
        /\ call' = SearchStep(call, ans)
    /\ Note("search")
    /\ UNCHANGED <<mainVars, runVars, pc, cache, remote, pageSize, editOk>>

\* Mutant of Cached: the cache is never consulted.
Cached_Never(type) == FALSE

\* if issue_type in self.editability_cache
Cached(type) == type \in DOMAIN cache

\* Mutant of CanEditLabels: one of the two operations is enough.
CanEditLabels_Either(meta) ==
    /\ meta.hasFields /\ meta.hasLabels
    /\ ("add" \in meta.operations \/ "remove" \in meta.operations)

\* can_edit_labels of check_label_editability.
CanEditLabels(meta) ==
    /\ meta.hasFields /\ meta.hasLabels
    /\ "add" \in meta.operations /\ "remove" \in meta.operations

\* check_label_editability on a cache miss: the editmeta request.
EditRequest ==
    /\ Running("edit")
    /\ \E ans \in Answers :
        /\ Allowed(call, ans)
        /\ IF ans.kind = "fault"
           THEN /\ call' = OnException(Count(call, ans), TransportFault)
                /\ UNCHANGED <<cache, editOk>>
           ELSE IF ans.status # 200
           THEN /\ call' = OnErrorStatus(Count(call, ans), ans.status)
                /\ UNCHANGED <<cache, editOk>>
           ELSE \E meta \in EditMetas :
                /\ cache' = Put(cache, call.type, CanEditLabels(meta))
                /\ editOk' = [editOk EXCEPT ![call.type] = @ + 1]
                /\ call' = OnReturn([call EXCEPT !.meta = meta], CanEditLabels(meta))
    /\ Note("edit")
    /\ UNCHANGED <<mainVars, runVars, pc, remote, pageSize>>

\* Mutant of Payload: the remove operations are put before the add operations.
Payload_RemovesFirst(add, remove) ==
    [k \in 1..Len(remove) |-> [op |-> "remove", label |-> remove[k]]]
    \o [k \in 1..Len(add) |-> [op |-> "add", label |-> add[k]]]

\* update["labels"]: one {"add": label} per label to add, then one
\* {"remove": label} per label to remove.
Payload(add, remove) ==
    [k \in 1..Len(add) |-> [op |-> "add", label |-> add[k]]]
    \o [k \in 1..Len(remove) |-> [op |-> "remove", label |-> remove[k]]]

\* modify_issue_labels: the update request.
UpdateRequest ==
    /\ Running("update")
    /\ \E ans \in Answers :
        LET sent == [call EXCEPT !.payload = Payload(call.add, call.remove)] IN
        /\ Allowed(call, ans)
        /\ IF ans.kind = "fault"
           THEN /\ call' = OnException(Count(sent, ans), TransportFault)
                /\ UNCHANGED remote
           ELSE IF ans.status = 429
           THEN /\ call' = OnException(
                            [Count(sent, ans) EXCEPT
                                !.rlHeaders = Append(@, RetryAfterHeader(ans))],
                            JiraAPIError(429, {"retry_after"}))
                /\ UNCHANGED remote
           ELSE IF ans.status \notin {200, 204}
           THEN /\ call' = OnErrorStatus(Count(sent, ans), ans.status)
                /\ UNCHANGED remote
           ELSE /\ call' = OnReturn(sent, TRUE)
                /\ remote' = [n \in 1..Len(remote) |->
                                IF remote[n].key = call.key
                                THEN [remote[n] EXCEPT !.labels =
                                        ApplyUpdate(@, call.add, call.remove)]
                                ELSE remote[n]]
    /\ Note("update")
    /\ UNCHANGED <<mainVars, runVars, pc, cache, pageSize, editOk>>

NextCall == SearchRequest \/ EditRequest \/ UpdateRequest

\* ---------------------------------------------------------------- main
\* A value of "add" or "remove" in the input file: the key is absent, or its
\* value is null, a string or a list of strings (INPUT_SCHEMA); items holds
\* the string or the elements of the list.
Absent == [shape |-> "absent", items |-> <<>>]
Null == [shape |-> "null", items |-> <<>>]
Str(label) == [shape |-> "string", items |-> <<label>>]
List(labels) == [shape |-> "list", items |-> labels]

\* A batch record of the input file.
RawBatch(name, add, remove, status) ==
    [batchName |-> name, query |-> "q", add |-> add, remove |-> remove,
     status |-> status]

\* A batch record of the input file whose add and remove are lists.
Batch(name, add, remove, status) == RawBatch(name, List(add), List(remove), status)

\* The labels input files are written with.
RawLabels == {"", " ", "x", "x y", "xy"}

\* not label.strip()
Blank(label) == label \in {"", " "}

\* " " in label
HasSpace(label) == label \in {" ", "x y"}

\* label.replace(" ", "")
StripSpaces(label) ==
    CASE label = "x y" -> "xy"
      [] label = " " -> ""
      [] OTHER -> label

\* label.replace(" ", "_")
Underscores(label) ==
    CASE label = "x y" -> "x_y"
      [] label = " " -> "_"
      [] OTHER -> label

\* batch.get(key, [])
GetOrEmpty(raw) == IF raw.shape = "absent" THEN List(<<>>) ELSE raw

\* normalize_labels: None gives [], a string the list of it unless it is
\* blank, a list its strings that are not blank.
NormalizeLabels(labels) ==
    IF labels.shape = "null" THEN <<>>
    ELSE IF labels.shape = "string"
    THEN IF ~Blank(labels.items[1]) THEN labels.items ELSE <<>>
    ELSE SelectSeq(labels.items, LAMBDA l : ~Blank(l))

\* The answers to the prompt of handle_labels_with_spaces.
Choices == {"1", "2", "3", "4"}

\* handle_labels_with_spaces on one of the two lists, for the choices 1 to 3.
HandleLabelsWithSpaces(choice, labels) ==
    IF choice = "1" THEN [k \in 1..Len(labels) |-> StripSpaces(labels[k])]
    ELSE IF choice = "2" THEN [k \in 1..Len(labels) |-> Underscores(labels[k])]
    ELSE SelectSeq(labels, LAMBDA l : ~HasSpace(l))

\* if labels_with_spaces, for a batch record of the input file
Prompted(b) ==
    \E l \in Range(NormalizeLabels(GetOrEmpty(b.add))
                   \o NormalizeLabels(GetOrEmpty(b.remove))) : HasSpace(l)

\* The answers an operator can give in one load: one for each batch that is
\* prompted for, none ("") for the others.
Prompts(data) ==
    {c \in [1..Len(data) -> Choices \cup {""}] :
        \A n \in 1..Len(data) : (c[n] = "") <=> ~Prompted(data[n])}

\* load_and_validate_input ends the process at the first "4".
Aborted(choices) == \E n \in DOMAIN choices : choices[n] = "4"

\* load_and_validate_input: the batch list with add and remove normalized,
\* and the labels with spaces handled as the operator chose.
LoadAndValidate(data, choices) ==
    [n \in 1..Len(data) |->
        LET add == NormalizeLabels(GetOrEmpty(data[n].add))
            remove == NormalizeLabels(GetOrEmpty(data[n].remove))
        IN IF Prompted(data[n])
           THEN [data[n] EXCEPT !.add = HandleLabelsWithSpaces(choices[n], add),
                                !.remove = HandleLabelsWithSpaces(choices[n], remove)]
           ELSE [data[n] EXCEPT !.add = add, !.remove = remove]]

\* process_all_batches: the initial results dict.
NewSummary(n) ==
    [total_batches |-> n, completed_batches |-> 0, skipped_batches |-> 0,
     failed_batches |-> 0, total_issues |-> 0, successful_issues |-> 0,
     skipped_issues |-> 0, failed_issues |-> 0, batches |-> <<>>]

\* process_batch: the initial results dict.
NewResults(n) ==
    [total_issues |-> n, successful_issues |-> 0, skipped_issues |-> 0,
     failed_issues |-> 0, issues |-> EmptyMap]

\* Mutant of Exit: the process always ends with code 0.
Exit_AlwaysZero(code) == pc' = "exit" /\ exitCode' = 0

\* sys.exit(code)
Exit(code) == pc' = "exit" /\ exitCode' = code

\* main: load and validate the input file.
LoadInput ==
    /\ pc = "load"
    /\ IF inputOk
       THEN \E choices \in Prompts(store) :
            IF Aborted(choices)
            THEN /\ Exit(1)
                 /\ UNCHANGED batches
            ELSE /\ batches' = LoadAndValidate(store, choices)
                 /\ pc' = "filter"
                 /\ UNCHANGED exitCode
       ELSE /\ Exit(1)
            /\ UNCHANGED batches
    /\ UNCHANGED <<store, input, inputOk, args, runVars, cache, remote, pageSize,
                   call, called, editOk>>

\* batches = [batch for batch in batches if batch["batchName"] in batch_names]
FilterByName(bs, names) == SelectSeq(bs, LAMBDA b : b.batchName \in names)

\* main: the --batch allow-list.
FilterBatches ==
    /\ pc = "filter"
    /\ IF args.batch # {}
       THEN IF FilterByName(batches, args.batch) = <<>>
            THEN /\ Exit(1)
                 /\ UNCHANGED batches
            ELSE /\ batches' = FilterByName(batches, args.batch)
                 /\ pc' = "force"
                 /\ UNCHANGED exitCode
       ELSE /\ pc' = "force"
            /\ UNCHANGED <<batches, exitCode>>
    /\ UNCHANGED <<store, input, inputOk, args, runVars, cache, remote, pageSize,
                   call, called, editOk>>

\* Mutant of ResetDone: only the first batch of the list is looked at.
ResetDone_FirstOnly(bs) ==
    [n \in 1..Len(bs) |->
        IF n = 1 /\ bs[n].status = "DONE" THEN [bs[n] EXCEPT !.status = "TO DO"] ELSE bs[n]]

\* for batch in batches: if batch["status"] == "DONE": batch["status"] = "TO DO"
ResetDone(bs) ==
    [n \in 1..Len(bs) |->
        IF bs[n].status = "DONE" THEN [bs[n] EXCEPT !.status = "TO DO"] ELSE bs[n]]

\* main: the --force reset.
ForceReset ==
    /\ pc = "force"
    /\ batches' = IF args.force THEN ResetDone(batches) ELSE batches
    /\ pc' = "select"
    /\ UNCHANGED <<store, input, inputOk, args, exitCode, runVars, cache, remote,
                   pageSize, call, called, editOk>>

\* unprocessed_batches = [batch for batch in batches if batch["status"] == "TO DO"]
Unprocessed(bs) == SelectSeq(bs, LAMBDA b : b.status = "TO DO")

\* Mutant of DryRun: the flag is not looked at.
DryRun_Ignored == FALSE

\* if args.dry_run
DryRun == args.dry_run

\* main: nothing to do, the dry run, or the processor is built and
\* process_all_batches is entered.
SelectUnprocessed ==
    /\ pc = "select"
    /\ IF Unprocessed(batches) = <<>> \/ DryRun
       THEN /\ Exit(0)
            /\ UNCHANGED <<bi, summary, cache>>
       ELSE /\ pc' = "run"
            /\ cache' = EmptyMap
            /\ summary' = NewSummary(Len(batches))
            /\ bi' = 1
            /\ UNCHANGED exitCode
    /\ UNCHANGED <<store, input, inputOk, args, batches, ii, issues, progress,
                   results, files, remote, pageSize, call, called, editOk>>

\* ---------------------------------------------------------------- batch runner
\* Mutant of SaveUpdatedInput: the file is left as it is.
SaveUpdatedInput_Skipped(data) == store

\* save_updated_input: the whole list it is given replaces the file; add and
\* remove are written as the lists they are in memory.
SaveUpdatedInput(data) ==
    [n \in 1..Len(data) |->
        [data[n] EXCEPT !.add = List(@), !.remove = List(@)]]

\* Mutant of AlreadyDone: the status is not looked at.
AlreadyDone_Never(b) == FALSE

\* if batch["status"] == "DONE"
AlreadyDone(b) == b.status = "DONE"

\* process_all_batches: the loop head for batch bi; a DONE batch is skipped,
\* another one enters process_batch, which starts with the search.
RunnerStep ==
    /\ pc = "run"
    /\ bi <= Len(batches)
    /\ IF AlreadyDone(batches[bi])
       THEN /\ summary' = [summary EXCEPT !.skipped_batches = @ + 1]
            /\ bi' = bi + 1
            /\ UNCHANGED <<pc, call>>
       ELSE /\ call' = NewCall("search", 0, "", <<>>, <<>>)
            /\ pc' = "search"
            /\ UNCHANGED <<summary, bi>>
    /\ UNCHANGED <<mainVars, ii, issues, progress, results, files, cache, remote,
                   pageSize, called, editOk>>

\* process_all_batches returned: main writes the final results and ends.
RunnerDone ==
    /\ pc = "run"
    /\ bi > Len(batches)
    /\ files' = [files EXCEPT !.final = <<summary>>]
    /\ Exit(0)
    /\ UNCHANGED <<store, input, inputOk, args, batches, bi, ii, issues, progress,
                   results, summary, cache, remote, pageSize, call, called, editOk>>

\* Mutant of BatchFailed: the failure is recorded and the run stops.
BatchFailed_Aborts ==
    /\ summary' = [summary EXCEPT
            !.failed_batches = @ + 1,
            !.batches = Append(@, [name |-> batches[bi].batchName,
                                   result |-> "failure",
                                   details |-> NewResults(0)])]
    /\ bi' = bi
    /\ pc' = "exit"

\* The except clause of process_all_batches for batch bi.
BatchFailed ==
    /\ summary' = [summary EXCEPT
            !.failed_batches = @ + 1,
            !.batches = Append(@, [name |-> batches[bi].batchName,
                                   result |-> "failure",
                                   details |-> NewResults(0)])]
    /\ bi' = bi + 1
    /\ pc' = "run"

\* The search of process_batch has returned or raised.
AfterSearch ==
    /\ pc = "search"
    /\ call.state \in {"returned", "raised"}
    /\ IF call.state = "returned"
       THEN /\ issues' = call.total_issues
            /\ progress' = EmptyMap
            /\ results' = NewResults(Len(call.total_issues))
            /\ ii' = 1
            /\ pc' = "issue"
            /\ UNCHANGED <<summary, bi>>
       ELSE /\ BatchFailed
            /\ UNCHANGED <<issues, progress, results, ii>>
    /\ call' = NoCall
    /\ UNCHANGED <<mainVars, files, cache, remote, pageSize, called, editOk>>

\* ---------------------------------------------------------------- batch processor
\* Mutant of ActualAdd: every label of the batch's add list is sent.
ActualAdd_Unfiltered(add, current) == add

\* actual_labels_to_add = [label for label in labels_to_add if label not in current_labels]
ActualAdd(add, current) == SelectSeq(add, LAMBDA l : l \notin current)

\* Mutant of ActualRemove: every label of the batch's remove list is sent.
ActualRemove_Unfiltered(remove, current) == remove

\* actual_labels_to_remove = [label for label in labels_to_remove if label in current_labels]
ActualRemove(remove, current) == SelectSeq(remove, LAMBDA l : l \in current)

Outcome(status, reason, added, removed) ==
    [status |-> status, reason |-> reason, added |-> added, removed |-> removed]

\* Mutant of Record: a SKIPPED outcome is stored but not counted.
Record_SkippedUncounted(res, key, out) ==
    [res EXCEPT
        !.successful_issues = IF out.status = "SUCCESS" THEN @ + 1 ELSE @,
        !.failed_issues = IF out.status = "FAILED" THEN @ + 1 ELSE @,
        !.issues = Put(@, key, out)]

\* Mutant of Record: a FAILED outcome is counted but not stored.
Record_DropsFailed(res, key, out) ==
    [res EXCEPT
        !.successful_issues = IF out.status = "SUCCESS" THEN @ + 1 ELSE @,
        !.skipped_issues = IF out.status = "SKIPPED" THEN @ + 1 ELSE @,
        !.failed_issues = IF out.status = "FAILED" THEN @ + 1 ELSE @,
        !.issues = IF out.status = "FAILED" THEN @ ELSE Put(@, key, out)]

\* results[...] += 1 and results["issues"][issue_key] = {...}
Record(res, key, out) ==
    [res EXCEPT
        !.successful_issues = IF out.status = "SUCCESS" THEN @ + 1 ELSE @,
        !.skipped_issues = IF out.status = "SKIPPED" THEN @ + 1 ELSE @,
        !.failed_issues = IF out.status = "FAILED" THEN @ + 1 ELSE @,
        !.issues = Put(@, key, out)]

\* Mutant of AlreadyProcessed: the progress map is not looked at.
AlreadyProcessed_Never(prog, key) == FALSE

\* if issue_key in progress and progress[issue_key] == "DONE"
AlreadyProcessed(prog, key) == key \in DOMAIN prog /\ prog[key] = "DONE"

\* The number of progress entries at which the progress file is rewritten.
FlushEvery == 10

\* The loop body of process_batch for issue ii, up to the first remote
\* request it makes (editmeta on a cache miss, else the update) or to the
\* end of the iteration.
ProcessIssue ==
    /\ pc = "issue"
    /\ ii <= Len(issues)
    /\ LET issue == issues[ii]
           b == batches[bi]
           toAdd == ActualAdd(b.add, issue.labels)
           toRemove == ActualRemove(b.remove, issue.labels)
       IN
       IF AlreadyProcessed(progress, issue.key)
       THEN /\ results' = Record(results, issue.key,
                                 Outcome("SKIPPED", "Already processed", <<>>, <<>>))
            /\ ii' = ii + 1
            /\ UNCHANGED <<pc, call>>
       ELSE IF toAdd = <<>> /\ toRemove = <<>>
       THEN /\ results' = Record(results, issue.key,
                                 Outcome("SKIPPED", "No label changes needed", <<>>, <<>>))
            /\ ii' = ii + 1
            /\ UNCHANGED <<pc, call>>
       ELSE IF Cached(issue.type)
       THEN IF cache[issue.type]
            THEN /\ call' = NewCall("update", issue.key, issue.type, toAdd, toRemove)
                 /\ pc' = "update"
                 /\ UNCHANGED <<results, ii>>
            ELSE /\ results' = Record(results, issue.key,
                                      Outcome("SKIPPED", "Labels not editable", <<>>, <<>>))
                 /\ ii' = ii + 1
                 /\ UNCHANGED <<pc, call>>
       ELSE /\ call' = NewCall("edit", issue.key, issue.type, toAdd, toRemove)
            /\ pc' = "edit"
            /\ UNCHANGED <<results, ii>>
    /\ UNCHANGED <<mainVars, bi, issues, progress, summary, files, cache, remote,
                   pageSize, called, editOk>>

\* check_label_editability has returned or raised for issue ii.
AfterEdit ==
    /\ pc = "edit"
    /\ call.state \in {"returned", "raised"}
    /\ LET issue == issues[ii] IN
       IF call.state = "raised"
       THEN /\ results' = Record(results, issue.key,
                                 Outcome("FAILED", "editability", <<>>, <<>>))
            /\ ii' = ii + 1
            /\ pc' = "issue"
            /\ call' = NoCall
       ELSE IF ~call.value
       THEN /\ results' = Record(results, issue.key,
                                 Outcome("SKIPPED", "Labels not editable", <<>>, <<>>))
            /\ ii' = ii + 1
            /\ pc' = "issue"
            /\ call' = NoCall
       ELSE /\ call' = NewCall("update", issue.key, issue.type, call.add, call.remove)
            /\ pc' = "update"
            /\ UNCHANGED <<results, ii>>
    /\ UNCHANGED <<mainVars, bi, issues, progress, summary, files, cache, remote,
                   pageSize, called, editOk>>

\* modify_issue_labels has returned or raised for issue ii: the outcome,
\* the progress entry and the periodic write of the progress file.
AfterUpdate ==
    /\ pc = "update"
    /\ call.state \in {"returned", "raised"}
    /\ LET issue == issues[ii]
           out == IF call.state = "returned"
                  THEN IF call.value
                       THEN Outcome("SUCCESS", "", call.add, call.remove)
                       ELSE Outcome("FAILED", "Unknown error", <<>>, <<>>)
                  ELSE Outcome("FAILED", "update", <<>>, <<>>)
           prog == Put(progress, issue.key,
                       IF out.status = "SUCCESS" THEN "DONE" ELSE "FAILED")
       IN
       /\ results' = Record(results, issue.key, out)
       /\ progress' = prog
       /\ files' = IF Cardinality(DOMAIN prog) % FlushEvery = 0
                   THEN [files EXCEPT !.progress = Put(@, batches[bi].batchName, prog)]
                   ELSE files
    /\ ii' = ii + 1
    /\ pc' = "issue"
    /\ call' = NoCall
    /\ UNCHANGED <<mainVars, bi, issues, summary, cache, remote, pageSize, called,
                   editOk>>

\* The loop of process_batch is over: the final progress and results files;
\* back in process_all_batches the batch is marked DONE, the input file is
\* rewritten and the batch is added to the summary.
FinishBatch ==
    /\ pc = "issue"
    /\ ii > Len(issues)
    /\ LET name == batches[bi].batchName
           done == [batches EXCEPT ![bi].status = "DONE"]
       IN
       /\ files' = [files EXCEPT !.progress = Put(@, name, progress),
                                 !.results = Put(@, name, results)]
       /\ batches' = done
       /\ store' = SaveUpdatedInput(done)
       /\ summary' = [summary EXCEPT
               !.completed_batches = @ + 1,
               !.total_issues = @ + results.total_issues,
               !.successful_issues = @ + results.successful_issues,
               !.skipped_issues = @ + results.skipped_issues,
               !.failed_issues = @ + results.failed_issues,
               !.batches = Append(@, [name |-> name, result |-> "success",
                                      details |-> results])]
    /\ bi' = bi + 1
    /\ pc' = "run"
    /\ UNCHANGED <<input, inputOk, args, exitCode, ii, issues, progress, results,
                   cache, remote, pageSize, call, called, editOk>>

NextRun ==
    \/ LoadInput \/ FilterBatches \/ ForceReset \/ SelectUnprocessed
    \/ RunnerStep \/ RunnerDone \/ AfterSearch
    \/ ProcessIssue \/ AfterEdit \/ AfterUpdate \/ FinishBatch

Next == NextRun \/ NextCall

\* ---------------------------------------------------------------- initial states
Statuses == {"TO DO", "DONE"}

\* The state of the process when main() is entered.
Started ==
    /\ input = store
    /\ batches = <<>> /\ pc = "load" /\ exitCode = -1
    /\ bi = 0 /\ ii = 0 /\ issues = <<>> /\ progress = EmptyMap
    /\ results = NewResults(0) /\ summary = NewSummary(0)
    /\ files = [progress |-> EmptyMap, results |-> EmptyMap, final |-> <<>>]
    /\ cache = EmptyMap
    /\ call = NoCall
    /\ called = [b \in BatchNames |-> {}]
    /\ editOk = [t \in Types |-> 0]

AddLists == {<<>>, <<"x", "y">>}
RemoveLists == {<<>>, <<"y">>, <<"z">>}
LabelSets == {{}, {"x"}, {"y", "z"}}

\* The remotes of a run: none, one or two issues; issue 1 is a Bug, issue 2
\* is of either type.
Remotes ==
    {<<>>}
    \cup {<<[key |-> 1, type |-> "Bug", labels |-> l]>> : l \in LabelSets}
    \cup {<<[key |-> 1, type |-> "Bug", labels |-> l1],
            [key |-> 2, type |-> t, labels |-> l2]>> :
            l1 \in LabelSets, l2 \in LabelSets, t \in Types}

\* Every command line and every pair of stored statuses, on fixed label lists.
InitArgs ==
    /\ \E s1 \in Statuses, s2 \in Statuses :
          store = <<Batch("A", <<"x">>, <<"y">>, s1), Batch("B", <<"x">>, <<"y">>, s2)>>
    /\ inputOk \in BOOLEAN
    /\ args \in [batch : {{}, {"A"}, {"B"}, {"Z"}}, dry_run : BOOLEAN, force : BOOLEAN]
    /\ remote = <<[key |-> 1, type |-> "Bug", labels |-> {"y"}]>>
    /\ pageSize = MaxPageSize
    /\ Started

\* Every pair of label lists and every remote, on a plain command line: two
\* batches with the same query and lists, so that the second repeats the first.
InitData ==
    /\ \E a \in AddLists, r \in RemoveLists :
          store = <<Batch("A", a, r, "TO DO"), Batch("B", a, r, "TO DO")>>
    /\ inputOk = TRUE
    /\ args = [batch |-> {}, dry_run |-> FALSE, force |-> FALSE]
    /\ remote \in Remotes
    /\ pageSize \in {1, MaxPageSize}
    /\ Started

Init == InitArgs \/ InitData

Spec == Init /\ [][Next]_vars

\* A remote of n issues of one type that all lack "x" and carry "y", but for
\* the issue at position skip, which carries "x" and lacks "y".
LongRemote(n, skip) ==
    [k \in 1..n |-> [key |-> k, type |-> "Bug",
                     labels |-> IF k = skip THEN {"x"} ELSE {"y"}]]

\* One batch over a remote of at least FlushEvery issues, with or without
\* an issue that needs no change; a page holds FlushEvery issues.
InitFlush ==
    /\ store = <<Batch("A", <<"x">>, <<"y">>, "TO DO")>>
    /\ inputOk = TRUE
    /\ args = [batch |-> {}, dry_run |-> FALSE, force |-> FALSE]
    /\ \E n \in {FlushEvery, FlushEvery + 1}, skip \in {0, 3} :
          remote = LongRemote(n, skip)
    /\ pageSize = FlushEvery
    /\ Started

SpecFlush == InitFlush /\ [][Next]_vars

\* Another party creates an issue the query matches while a search is
\* between two pages; the remote lists it first, which moves every other
\* issue one position on.
RemoteGrows ==
    /\ Running("search") /\ pc = "search"
    /\ call.offsets # <<>>
    /\ Len(remote) < MaxGrown
    /\ remote' = <<[key |-> Len(remote) + 1, type |-> "Bug", labels |-> {"y"}]>> \o remote
    /\ UNCHANGED <<mainVars, runVars, pc, cache, pageSize, call, called, editOk>>

\* One batch over two issues, fetched one per page, in a working directory
\* that has the progress file of an earlier run of the batch.
InitDup ==
    /\ store = <<Batch("A", <<"x">>, <<"y">>, "TO DO")>>
    /\ inputOk = TRUE
    /\ args = [batch |-> {}, dry_run |-> FALSE, force |-> FALSE]
    /\ remote = LongRemote(2, 0)
    /\ pageSize = 1
    /\ input = store
    /\ batches = <<>> /\ pc = "load" /\ exitCode = -1
    /\ bi = 0 /\ ii = 0 /\ issues = <<>> /\ progress = EmptyMap
    /\ results = NewResults(0) /\ summary = NewSummary(0)
    /\ files = [progress |-> Put(EmptyMap, "A (earlier run)",
                                 Put(Put(EmptyMap, 1, "DONE"), 2, "DONE")),
                results |-> EmptyMap, final |-> <<>>]
    /\ cache = EmptyMap
    /\ call = NoCall
    /\ called = [b \in BatchNames |-> {}]
    /\ editOk = [t \in Types |-> 0]

NextDup == Next \/ RemoteGrows

SpecDup == InitDup /\ [][NextDup]_vars

\* The label lists of up to n labels.
ListsUpTo(n) == UNION {[1..k -> RawLabels] : k \in 0..n}

\* The values "add" or "remove" can have in an input file, with lists of up
\* to n labels.
RawsUpTo(n) ==
    {Absent, Null} \cup {Str(l) : l \in RawLabels} \cup {List(ls) : ls \in ListsUpTo(n)}

\* One batch whose add and remove have any of the shapes the schema allows.
InitLoad ==
    /\ \E a \in RawsUpTo(MaxRawLen), r \in RawsUpTo(1) :
          store = <<RawBatch("A", a, r, "TO DO")>>
    /\ inputOk = TRUE
    /\ args = [batch |-> {}, dry_run |-> FALSE, force |-> FALSE]
    /\ remote = <<>>
    /\ pageSize = MaxPageSize
    /\ Started

\* main up to the call of process_all_batches.
NextLoad == LoadInput \/ FilterBatches \/ ForceReset \/ SelectUnprocessed

SpecLoad == InitLoad /\ [][NextLoad]_vars

\* ---------------------------------------------------------------- stand-alone client
\* A freshly constructed client on which one of the three operations is called.
RemoteOf(n) ==
    [k \in 1..n |-> [key |-> k, type |-> IF k % 2 = 1 THEN "Bug" ELSE "Task",
                     labels |-> IF k % 2 = 1 THEN {"x"} ELSE {}]]

InitCall ==
    /\ store = <<>> /\ input = <<>> /\ inputOk = TRUE
    /\ args = [batch |-> {}, dry_run |-> FALSE, force |-> FALSE]
    /\ batches = <<>> /\ pc = "client" /\ exitCode = -1
    /\ bi = 0 /\ ii = 0 /\ issues = <<>> /\ progress = EmptyMap
    /\ results = NewResults(0) /\ summary = NewSummary(0)
    /\ files = [progress |-> EmptyMap, results |-> EmptyMap, final |-> <<>>]
    /\ cache = EmptyMap
    /\ \E n \in 0..MaxTotal : remote = RemoteOf(n)
    /\ pageSize \in 1..MaxPageSize
    /\ \/ call = NewCall("search", 0, "", <<>>, <<>>)
       \/ /\ Len(remote) > 0
          /\ call = NewCall("edit", 1, "Bug", <<>>, <<>>)
       \/ /\ Len(remote) > 0
          /\ \E a \in {<<>>, <<"y">>}, r \in {<<>>, <<"x">>} :
                /\ a \o r # <<>>
                /\ call = NewCall("update", 1, "", a, r)
    /\ called = [b \in BatchNames |-> {}]
    /\ editOk = [t \in Types |-> 0]

SpecCall == InitCall /\ [][NextCall]_vars

\* ---------------------------------------------------------------- claims
\* C1: in every wrapped call a 429 answer leaves the retry budget untouched:
\* while the call runs the wrapper's counter equals the number of failures
\* that were not 429s, and a call that propagates a failure has seen
\* MAX_RETRIES + 1 such failures.
C1_RateLimitNeverCounts ==
    /\ call.state = "running" => call.retries = call.nFail
    /\ call.state = "raised" => call.nFail = MAX_RETRIES + 1

\* C1, restricted to the search and the editability check, where it holds.
C1_SearchAndEdit == call.op \in {"search", "edit"} => C1_RateLimitNeverCounts

\* C2: a label update answered by one 429 and then a success has slept
\* exactly once, for the seconds of the 429's Retry-After header (twice the
\* configured pause without the header).
C2_RetryAfterSlept ==
    (call.op = "update" /\ call.state = "returned" /\ call.n429 = 1 /\ call.nFail = 0)
        => /\ Len(call.sleeps) = 1
           /\ call.sleeps[1].secs = call.rlHeaders[1]

\* Every issue of the batch result d had its delta applied to the remote:
\* it was updated successfully or needed no change.
DeltaApplied(d) ==
    \A k \in DOMAIN d.issues :
        \/ d.issues[k].status = "SUCCESS"
        \/ d.issues[k].reason = "No label changes needed"

\* C3: when a batch whose every update succeeded is processed again with the
\* same query and lists against the labels the remote then holds, every
\* issue is SKIPPED and no update request is made.
C3_RerunSkipsAll ==
    (/\ pc = "exit" /\ Len(summary.batches) = 2
     /\ Len(batches) = 2
     /\ batches[1].add = batches[2].add /\ batches[1].remove = batches[2].remove
     /\ batches[1].query = batches[2].query
     /\ summary.batches[1].result = "success" /\ summary.batches[2].result = "success"
     /\ DeltaApplied(summary.batches[1].details))
        => /\ \A k \in DOMAIN summary.batches[2].details.issues :
                summary.batches[2].details.issues[k].status = "SKIPPED"
           /\ "update" \notin called[batches[2].batchName]

\* C3 for lists that share no label, where it holds.
C3_DisjointLists ==
    (Len(batches) = 2 /\ Range(batches[1].add) \cap Range(batches[1].remove) = {})
        => C3_RerunSkipsAll

\* C4: the input file always holds every batch record that was loaded from
\* it, in the original order, differing from the loaded record in nothing
\* but its status.
C4_StoreKeepsEveryBatch ==
    /\ Len(store) = Len(input)
    /\ \A n \in 1..Len(store) : [store[n] EXCEPT !.status = input[n].status] = input[n]

\* C4 for runs without --batch, where it holds.
C4_NoAllowList == args.batch = {} => C4_StoreKeepsEveryBatch

\* C5: whenever an update is sent for an issue, the labels it adds are
\* exactly the batch's add labels absent from the issue's current labels and
\* the labels it removes exactly the batch's remove labels present in them.
C5_DeltaExact ==
    (pc = "update") =>
        LET issue == issues[ii]
            b == batches[bi]
        IN /\ call.key = issue.key
           /\ Range(call.add) = Range(b.add) \ issue.labels
           /\ Range(call.remove) = Range(b.remove) \cap issue.labels
           /\ Range(call.add) \cap issue.labels = {}
           /\ Range(call.remove) \subseteq issue.labels
           /\ Len(call.add) = Cardinality(Range(call.add))
           /\ Len(call.remove) = Cardinality(Range(call.remove))

\* C5 witness: an update is being sent whose add list lost a label the issue
\* already has and whose remove list is not empty.
C5_Witness ==
    /\ pc = "update" /\ call.state = "running"
    /\ Len(call.add) < Len(batches[bi].add)
    /\ call.add # <<>> /\ call.remove # <<>>

\* C6: a wrapped call that meets only non-rate-limit failures invokes the
\* operation at most MAX_RETRIES + 1 times, one more time per failure, and
\* propagates the failure exactly when the (MAX_RETRIES + 1)-th attempt failed.
C6_BoundedRetries ==
    (call.n429 = 0 /\ call.state # "idle") =>
        /\ call.attempts <= MAX_RETRIES + 1
        /\ call.state = "running" => call.attempts = call.nFail + 1
        /\ call.state = "raised" <=> call.nFail = MAX_RETRIES + 1
        /\ call.state = "raised" => call.attempts = MAX_RETRIES + 1
        /\ call.state = "returned" => call.attempts = call.nFail + 1

\* C6 witness: a search failed MAX_RETRIES + 1 times and its failure is propagated.
C6_Witness ==
    /\ call.op = "search" /\ call.state = "raised"
    /\ call.n429 = 0 /\ call.attempts = MAX_RETRIES + 1

\* max(1, ceil(T / P))
PagesOf(T, P) == IF T = 0 THEN 1 ELSE (T + P - 1) \div P

\* C7: a search whose every page is answered 200 requests offsets 0, P, 2P,
\* ... in order, pauses once after every page but the last, never makes more
\* than max(1, ceil(T/P)) requests, and returns after exactly that many with
\* all issues of the remote in page order.
C7_Pagination ==
    (call.op = "search" /\ call.n429 = 0 /\ call.nFail = 0) =>
        LET n == PagesOf(Len(remote), pageSize) IN
        /\ \A k \in 1..Len(call.offsets) : call.offsets[k] = (k - 1) * pageSize
        /\ call.state = "running" =>
              /\ Len(call.offsets) < n
              /\ call.pauses = Len(call.offsets)
              /\ call.start_at = Len(call.offsets) * pageSize
        /\ call.state = "returned" =>
              /\ Len(call.offsets) = n
              /\ call.pauses = n - 1
              /\ call.total_issues = remote
              /\ call.sleeps = <<>>
        /\ call.state # "raised"

\* C7 witness: five issues at page size two were fetched with offsets 0, 2, 4
\* and two pauses.
C7_Witness ==
    /\ call.op = "search" /\ call.state = "returned"
    /\ call.n429 = 0 /\ call.nFail = 0
    /\ Len(remote) = 5 /\ pageSize = 2
    /\ call.offsets = <<0, 2, 4>> /\ call.pauses = 2

\* C8: no step of a run changes or removes an entry of the editability
\* cache, and no issue type has more than one editmeta request answered 200.
C8_CacheWriteOnce ==
    [][/\ \A t \in DOMAIN cache : t \in DOMAIN cache' /\ cache'[t] = cache[t]
       /\ \A t \in Types : editOk'[t] <= 1]_vars

\* C8 witness: the second issue of a type is being updated after the first
\* was, on one successful editmeta request for the type.
C8_Witness ==
    /\ pc = "update" /\ ii = 2
    /\ issues[1].type = issues[2].type
    /\ 1 \in DOMAIN results.issues /\ results.issues[1].status = "SUCCESS"
    /\ editOk[issues[2].type] = 1

DoneAtStart(name) ==
    \E n \in 1..Len(input) : input[n].batchName = name /\ input[n].status = "DONE"

C10_ForceResetsExactlyDone ==
    [][(pc = "force" /\ args.force) =>
          /\ Len(batches') = Len(batches)
          /\ \A n \in 1..Len(batches) :
                /\ batches'[n].status = "TO DO"
                /\ batches'[n].batchName = batches[n].batchName
                /\ batches'[n].query = batches[n].query
                /\ batches'[n].add = batches[n].add
                /\ batches'[n].remove = batches[n].remove
          /\ {n \in 1..Len(batches) : batches'[n] # batches[n]}
                = {n \in 1..Len(batches) : batches[n].status = "DONE"}
          /\ store' = store]_vars

\* C10 witness: after the reset of a forced run, a batch loaded as DONE and a
\* batch loaded as TO DO are both TO DO.
C10_Witness ==
    /\ pc = "select" /\ args.force /\ Len(batches) = 2
    /\ input[1].status = "TO DO" /\ input[2].status = "DONE"
    /\ batches[1].status = "TO DO" /\ batches[2].status = "TO DO"

\* The position of label x in the list s.
Pos(s, x) == CHOOSE k \in 1..Len(s) : s[k] = x

\* The labels of list t keep the order they have in list s.
InOrderOf(t, s) ==
    \A i \in 1..Len(t), j \in 1..Len(t) : i < j => Pos(s, t[i]) < Pos(s, t[j])

\* C11: an update the remote accepts at once was sent exactly once, with one
\* add operation per label of actualAdd followed by one remove operation per
\* label of actualRemove, each in the order of the batch's list; the step
\* that follows records SUCCESS for the issue; and the step that ends the
\* batch sets its status to DONE.
C11_OneUpdateAddsThenRemoves ==
    /\ [](  (pc = "update" /\ call.state = "returned" /\ call.n429 = 0 /\ call.nFail = 0)
            => LET na == Len(call.add)
                   nr == Len(call.remove)
               IN /\ call.attempts = 1
                  /\ call.add \o call.remove # <<>>
                  /\ Len(call.payload) = na + nr
                  /\ \A k \in 1..na : call.payload[k] = [op |-> "add", label |-> call.add[k]]
                  /\ \A k \in 1..nr :
                        call.payload[na + k] = [op |-> "remove", label |-> call.remove[k]]
                  /\ InOrderOf(call.add, batches[bi].add)
                  /\ InOrderOf(call.remove, batches[bi].remove))
    /\ [][/\ (pc = "update" /\ call.state = "returned") =>
                /\ results'.issues[call.key].status = "SUCCESS"
                /\ results'.successful_issues = results.successful_issues + 1
          /\ (pc = "issue" /\ ii > Len(issues)) =>
                /\ batches'[bi].status = "DONE"
                /\ summary'.completed_batches = summary.completed_batches + 1]_vars

\* C11 witness: a batch is DONE in which an issue was updated with an add
\* and a remove operation.
C11_Witness ==
    /\ pc = "run" /\ bi = 2 /\ batches[1].status = "DONE"
    /\ Len(summary.batches) = 1
    /\ \E k \in DOMAIN summary.batches[1].details.issues :
          LET o == summary.batches[1].details.issues[k] IN
          o.status = "SUCCESS" /\ o.added # <<>> /\ o.removed # <<>>

\* The issue the loop of process_batch is at needs no label change.
NoDelta ==
    /\ pc = "issue" /\ ii <= Len(issues)
    /\ Range(batches[bi].add) \subseteq issues[ii].labels
    /\ Range(batches[bi].remove) \cap issues[ii].labels = {}

\* C12: for an issue that has every label of the add list and no label of
\* the remove list, the step of the loop makes no request (neither editmeta
\* nor update), leaves the cache and the remote alone and records SKIPPED;
\* no editmeta or update call is ever in progress for such an issue.
C12_EmptyDeltaSkipped ==
    /\ [](pc \in {"edit", "update"} =>
            \/ ~(Range(batches[bi].add) \subseteq issues[ii].labels)
            \/ Range(batches[bi].remove) \cap issues[ii].labels # {})
    /\ [][NoDelta =>
            /\ pc' = "issue" /\ ii' = ii + 1
            /\ call = NoCall /\ call' = NoCall
            /\ cache' = cache /\ editOk' = editOk /\ called' = called
            /\ remote' = remote
            /\ issues[ii].key \in DOMAIN results'.issues
            /\ results'.issues[issues[ii].key].status = "SKIPPED"
            /\ results'.skipped_issues = results.skipped_issues + 1]_vars

\* C12 witness: an issue was skipped as needing no change in a batch whose
\* lists are not empty, after an earlier issue filled the cache.
C12_Witness ==
    /\ pc = "issue" /\ batches[bi].add # <<>> /\ batches[bi].remove # <<>>
    /\ cache # EmptyMap
    /\ \E k \in DOMAIN results.issues :
          results.issues[k].reason = "No label changes needed"

\* C13: when the search of a batch raises, the batch is added to the summary
\* as a failure, its status and the input file are left alone and the runner
\* goes on with the next batch; a batch recorded as a failure is never DONE
\* in memory; and when the run ends every batch of the list was either
\* skipped or processed.
C13_BatchFailureDoesNotAbort ==
    /\ [](\A m \in 1..Len(summary.batches) : \A n \in 1..Len(batches) :
            (summary.batches[m].result = "failure"
             /\ batches[n].batchName = summary.batches[m].name)
            => batches[n].status = "TO DO")
    /\ []((pc = "exit" /\ files.final # <<>>) =>
            /\ Len(summary.batches) + summary.skipped_batches = Len(batches)
            /\ summary.completed_batches + summary.failed_batches = Len(summary.batches))
    /\ [][(pc = "search" /\ call.state = "raised") =>
            /\ summary'.failed_batches = summary.failed_batches + 1
            /\ Len(summary'.batches) = Len(summary.batches) + 1
            /\ summary'.batches[Len(summary'.batches)].name = batches[bi].batchName
            /\ summary'.batches[Len(summary'.batches)].result = "failure"
            /\ batches' = batches /\ store' = store
            /\ pc' = "run" /\ bi' = bi + 1 /\ exitCode' = exitCode]_vars

\* C13 witness: the run has ended with the first batch failed and the second
\* batch completed.
C13_Witness ==
    /\ pc = "exit" /\ exitCode = 0 /\ Len(summary.batches) = 2
    /\ summary.batches[1].result = "failure"
    /\ summary.batches[2].result = "success"
    /\ batches[1].status = "TO DO" /\ batches[2].status = "DONE"

\* C14: when the editability check or the update of an issue raises, the
\* issue is recorded as FAILED, no other outcome changes and the loop moves
\* to the next issue of the same batch; the outcomes recorded are always
\* those of the issues before the loop position, so at the end of the loop
\* every issue has one; and every batch whose processing returned is DONE.
C14_IssueFailureIsLocal ==
    /\ [](pc \in {"issue", "edit", "update"} =>
            DOMAIN results.issues =
                {issues[k].key : k \in 1..Min(ii - 1, Len(issues))})
    /\ [](\A m \in 1..Len(summary.batches) : \A n \in 1..Len(batches) :
            (summary.batches[m].result = "success"
             /\ batches[n].batchName = summary.batches[m].name)
            => batches[n].status = "DONE")
    /\ [][(pc \in {"edit", "update"} /\ call.state = "raised") =>
            /\ call.key \in DOMAIN results'.issues
            /\ results'.issues[call.key].status = "FAILED"
            /\ \A k \in DOMAIN results.issues : results'.issues[k] = results.issues[k]
            /\ results'.failed_issues = results.failed_issues + 1
            /\ pc' = "issue" /\ ii' = ii + 1 /\ bi' = bi
            /\ batches' = batches /\ summary' = summary]_vars

\* C14 witness: a batch is DONE whose first issue FAILED and whose second
\* issue was updated.
C14_Witness ==
    /\ pc = "run" /\ Len(summary.batches) = 1 /\ batches[1].status = "DONE"
    /\ summary.batches[1].result = "success"
    /\ DOMAIN summary.batches[1].details.issues = {1, 2}
    /\ summary.batches[1].details.issues[1].status = "FAILED"
    /\ summary.batches[1].details.issues[2].status = "SUCCESS"

\* C15: the step that ends the processing of a batch sets its status to DONE
\* and leaves the input file showing the statuses held in memory; while the
\* runner is at work the file shows DONE for every batch completed in this
\* run; and a batch the file shows as DONE was DONE when the run started or
\* has completed in this run.
C15_DoneStoredBeforeNext ==
    /\ [](\A m \in 1..Len(summary.batches) :
            summary.batches[m].result = "success" =>
                \E n \in 1..Len(store) :
                    /\ store[n].batchName = summary.batches[m].name
                    /\ store[n].status = "DONE")
    /\ [](\A n \in 1..Len(store) :
            store[n].status = "DONE" =>
                \/ DoneAtStart(store[n].batchName)
                \/ \E m \in 1..Len(summary.batches) :
                      /\ summary.batches[m].name = store[n].batchName
                      /\ summary.batches[m].result = "success")
    /\ [][(pc = "issue" /\ ii > Len(issues)) =>
            /\ batches'[bi].status = "DONE"
            /\ Len(store') = Len(batches')
            /\ \A n \in 1..Len(batches') :
                  /\ store'[n].batchName = batches'[n].batchName
                  /\ store'[n].status = batches'[n].status
            /\ pc' = "run" /\ bi' = bi + 1]_vars

\* C15 witness: the second batch is being searched while the file shows the
\* first batch, completed in this run, as DONE.
C15_Witness ==
    /\ pc = "search" /\ bi = 2 /\ ~DoneAtStart(batches[1].batchName)
    /\ Len(summary.batches) = 1 /\ summary.batches[1].result = "success"
    /\ store[1].status = "DONE" /\ store[2].status = "TO DO"

\* C16: when a run that entered the runner has ended, the input file shows
\* for every batch of the list the status the run holds in memory.
C16_StoreEqualsMemoryAtEnd ==
    (pc = "exit" /\ files.final # <<>>) =>
        \A n \in 1..Len(batches) :
            \E m \in 1..Len(store) :
                /\ store[m].batchName = batches[n].batchName
                /\ store[m].status = batches[n].status

\* No remote operation was invoked and no file was written.
Untouched ==
    /\ call = NoCall
    /\ called = [b \in BatchNames |-> {}]
    /\ editOk = [t \in Types |-> 0]
    /\ cache = EmptyMap
    /\ store = input
    /\ files = [progress |-> EmptyMap, results |-> EmptyMap, final |-> <<>>]

\* C17: in a dry run, whatever the input, the allow-list and the force flag,
\* no remote operation is invoked, the remote does not change, the input
\* file is not written and no progress, results or summary file is written;
\* the run never enters the runner.
C17_DryRunTouchesNothing ==
    /\ [](args.dry_run =>
            /\ Untouched
            /\ pc \in {"load", "filter", "force", "select", "exit"})
    /\ [][args.dry_run =>
            remote' = remote /\ store' = store /\ files' = files]_vars

\* C17 witness: a forced dry run with an allow-list has ended after the
\* reset of a DONE batch in memory.
C17_Witness ==
    /\ pc = "exit" /\ exitCode = 0
    /\ args.dry_run /\ args.force /\ args.batch = {"A"}
    /\ DoneAtStart("A") /\ Len(batches) = 1 /\ batches[1].status = "TO DO"

C19_FlushEveryTenthOutcome ==
    (/\ pc = "issue"
     /\ Cardinality(DOMAIN results.issues) > 0
     /\ Cardinality(DOMAIN results.issues) % FlushEvery = 0)
    => /\ batches[bi].batchName \in DOMAIN files.progress
       /\ files.progress[batches[bi].batchName] = progress

\* Lemma for C19: the same with the entries of the progress map counted.
C19_FlushEveryTenthEntry ==
    (/\ pc = "issue"
     /\ Cardinality(DOMAIN progress) > 0
     /\ Cardinality(DOMAIN progress) % FlushEvery = 0)
    => /\ batches[bi].batchName \in DOMAIN files.progress
       /\ files.progress[batches[bi].batchName] = progress

\* Lemma for C19: when the processing of a batch has just returned, its
\* progress file holds the progress map.
C19_FinalFlush ==
    (/\ pc = "run" /\ summary.batches # <<>>
     /\ summary.batches[Len(summary.batches)].result = "success")
    => LET name == summary.batches[Len(summary.batches)].name IN
       /\ name \in DOMAIN files.progress
       /\ files.progress[name] = progress

\* The progress file was written in the middle of a batch, at FlushEvery entries.
C19_PeriodicFlushSeen ==
    /\ pc = "issue" /\ ii <= Len(issues)
    /\ Cardinality(DOMAIN progress) = FlushEvery
    /\ batches[bi].batchName \in DOMAIN files.progress

\* The list has no label twice and no empty string.
NoDuplicateNoEmpty(labels) ==
    /\ \A i \in 1..Len(labels), j \in 1..Len(labels) : i # j => labels[i] # labels[j]
    /\ \A i \in 1..Len(labels) : labels[i] # ""

\* C20: when process_all_batches is entered, the add and remove lists of
\* every batch have no label twice and no empty string.
C20_ListsNormalized ==
    pc = "run" =>
        \A n \in 1..Len(batches) :
            /\ NoDuplicateNoEmpty(batches[n].add)
            /\ NoDuplicateNoEmpty(batches[n].remove)

\* Lemma for C20: the lists have no blank label and no label with a space.
C20_NoBlankNoSpace ==
    pc = "run" =>
        \A n \in 1..Len(batches) :
            \A l \in Range(batches[n].add \o batches[n].remove) :
                ~Blank(l) /\ ~HasSpace(l)

\* The batch whose processing has just returned, as the summary holds it.
JustCompleted ==
    /\ pc = "run" /\ summary.batches # <<>>
    /\ summary.batches[Len(summary.batches)].result = "success"

\* C21: when the processing of a batch has just returned, every issue with
\* an outcome in its results has an entry in the progress map, and every
\* issue whose outcome is FAILED has the entry FAILED.
C21_EveryOutcomeInProgress ==
    JustCompleted =>
        LET outs == summary.batches[Len(summary.batches)].details.issues IN
        \A k \in DOMAIN outs :
            /\ k \in DOMAIN progress
            /\ outs[k].status = "FAILED" => progress[k] = "FAILED"

\* Lemma for C21: the issues with a progress entry are those whose update
\* was attempted; the entry is DONE for SUCCESS and FAILED otherwise.
C21_UpdateOutcomesInProgress ==
    JustCompleted =>
        LET outs == summary.batches[Len(summary.batches)].details.issues IN
        /\ DOMAIN progress =
              {k \in DOMAIN outs : outs[k].status = "SUCCESS"
                                   \/ outs[k].reason \in {"update", "Unknown error"}}
        /\ \A k \in DOMAIN progress :
              progress[k] = IF outs[k].status = "SUCCESS" THEN "DONE" ELSE "FAILED"

\* The FAILED half of C21 on its own, for the issues that failed at the
\* editability check: each has a progress entry.
C21_FailedEditabilityHasEntry ==
    JustCompleted =>
        LET outs == summary.batches[Len(summary.batches)].details.issues IN
        \A k \in DOMAIN outs : outs[k].reason = "editability" => k \in DOMAIN progress

\* The waits of the wrapper's backoff branch in the current call, in order.
Backoffs == SelectSeq(call.sleeps, LAMBDA w : w.why = "backoff")

\* C22: in every wrapped call the wait before retry number k of the backoff
\* branch is RATE_LIMIT_PAUSE * 2^k, each twice the one before; the retry
\* counter k is the number of backoff waits, so rate-limit waits do not
\* advance it; every wait is followed by an attempt, so none follows the
\* failure that is propagated, which comes after MAX_RETRIES backoff waits.
C22_BackoffDoubles ==
    call.state # "idle" =>
        /\ call.retries = Len(Backoffs)
        /\ Len(Backoffs) <= MAX_RETRIES
        /\ \A k \in 0..(Len(Backoffs) - 1) : Backoffs[k + 1].secs = RATE_LIMIT_PAUSE * 2^k
        /\ \A k \in 1..(Len(Backoffs) - 1) : Backoffs[k + 1].secs = 2 * Backoffs[k].secs
        /\ call.attempts = Len(call.sleeps) + 1
        /\ call.state = "raised" => Len(Backoffs) = MAX_RETRIES

\* Lemma for C22: in searches and editability checks, and in updates that
\* meet no 429, the backoff waits are one per answer that was not a 429, but
\* for the failure that is propagated.
C22_OnePerFailure ==
    (call.state # "idle" /\ (call.op # "update" \/ call.n429 = 0)) =>
        Len(Backoffs) = IF call.state = "raised" THEN call.nFail - 1 ELSE call.nFail

\* C22 witness: a search failed, was rate limited, failed again until its
\* failure was propagated: MAX_RETRIES backoff waits around rate-limit waits.
C22_Witness ==
    /\ call.op = "search" /\ call.state = "raised" /\ call.n429 >= 1
    /\ Len(call.sleeps) = MAX_RETRIES + call.n429
    /\ call.sleeps[1].why = "backoff" /\ call.sleeps[2].why = "ratelimit"

\* C23: when check_label_editability has returned from a request, its value
\* is true exactly when the metadata received has a labels field with both
\* the add and the remove operation, and the cache holds that value for the
\* issue type.
C23_EditableIffAddAndRemove ==
    (call.op = "edit" /\ call.state = "returned") =>
        /\ call.value <=> /\ call.meta.hasFields /\ call.meta.hasLabels
                          /\ {"add", "remove"} \subseteq call.meta.operations
        /\ call.type \in DOMAIN cache
        /\ cache[call.type] = call.value

\* C23 witness: the check has returned false, and cached it, for a labels
\* field that supports remove but not add.
C23_Witness ==
    /\ call.op = "edit" /\ call.state = "returned" /\ ~call.value
    /\ call.meta.hasLabels /\ call.meta.operations = {"remove"}
    /\ cache[call.type] = FALSE

\* The number of outcomes with the given status in an outcome map.
CountOf(outs, status) == Cardinality({k \in DOMAIN outs : outs[k].status = status})

\* The counters of a results dict add up and agree with its outcome map.
Balanced(d) ==
    /\ d.total_issues = d.successful_issues + d.skipped_issues + d.failed_issues
    /\ Cardinality(DOMAIN d.issues) = d.total_issues
    /\ \A k \in DOMAIN d.issues : d.issues[k].status \in {"SUCCESS", "SKIPPED", "FAILED"}
    /\ d.successful_issues = CountOf(d.issues, "SUCCESS")
    /\ d.skipped_issues = CountOf(d.issues, "SKIPPED")
    /\ d.failed_issues = CountOf(d.issues, "FAILED")

\* C24: the results of every completed batch have one outcome, SUCCESS,
\* SKIPPED or FAILED, for each issue the search returned, and counters that
\* add up to total_issues; when the run ends the issue counters of the
\* summary add up too, total_batches is the sum of the completed, skipped
\* and failed batches, and this summary is what is written.
C24_CountersAddUp ==
    /\ \A m \in 1..Len(summary.batches) :
          summary.batches[m].result = "success" => Balanced(summary.batches[m].details)
    /\ JustCompleted =>
          DOMAIN summary.batches[Len(summary.batches)].details.issues
              = {issues[k].key : k \in 1..Len(issues)}
    /\ (pc = "exit" /\ files.final # <<>>) =>
          /\ summary.total_issues = summary.successful_issues
                                    + summary.skipped_issues + summary.failed_issues
          /\ summary.total_batches = summary.completed_batches
                                     + summary.skipped_batches + summary.failed_batches
          /\ summary.total_batches = Len(batches)
          /\ files.final = <<summary>>

\* C24 witness: a run has ended with one batch completed and one failed, and
\* with a SUCCESS and a SKIPPED issue in the completed batch.
C24_Witness ==
    /\ pc = "exit" /\ files.final # <<>>
    /\ summary.completed_batches = 1 /\ summary.failed_batches = 1
    /\ summary.successful_issues = 1 /\ summary.skipped_issues = 1

\* C25: a step in which the wrapper invokes the search again, on whatever
\* page the invocation before it failed, leaves offset 0 and an empty
\* accumulator; in every invocation the pages requested start at 0 and the
\* accumulator holds the pages fetched so far in this invocation, once each;
\* so the list a search returns, after any number of failed invocations, is
\* the remote's list.
C25_RetryRestartsSearch ==
    /\ [](call.op = "search" =>
            /\ \A k \in 1..Len(call.offsets) : call.offsets[k] = (k - 1) * pageSize
            /\ call.state = "running" =>
                  /\ call.start_at = Len(call.offsets) * pageSize
                  /\ call.total_issues = SubSeq(remote, 1, Min(call.start_at, Len(remote)))
            /\ call.state = "returned" =>
                  /\ call.total_issues = remote
                  /\ Len(call.offsets) = PagesOf(Len(remote), pageSize))
    /\ [][(call.op = "search" /\ call'.attempts = call.attempts + 1) =>
            /\ call'.state = "running"
            /\ call'.start_at = 0 /\ call'.total_issues = <<>>
            /\ call'.offsets = <<>>]_vars

\* C25 witness: a search over three pages has returned from its third
\* invocation, after two invocations that failed.
C25_Witness ==
    /\ call.op = "search" /\ call.state = "returned"
    /\ call.attempts = 3 /\ call.nFail = 2
    /\ Len(call.offsets) = 3 /\ Len(call.total_issues) = 5

\* C26: no call ends the process from within the client, whatever it is
\* answered; a call answered only 401s and 403s is invoked again after each
\* of the first MAX_RETRIES of them and raises at the next; and the step
\* that follows a raise records a failed batch (search) or a FAILED issue
\* (editability check, update) and moves the run on, with no exit code set.
C26_AuthErrorsNeverExit ==
    /\ [](call.state # "exited")
    /\ []((call.state # "idle" /\ call.denied) =>
            /\ call.state = "raised" <=> call.nFail = MAX_RETRIES + 1
            /\ call.state = "running" => call.attempts = call.nFail + 1
            /\ call.attempts <= MAX_RETRIES + 1)
    /\ [][(call.state = "raised" /\ pc \in {"search", "edit", "update"}) =>
            /\ exitCode' = exitCode /\ exitCode = -1
            /\ pc = "search" =>
                  /\ pc' = "run" /\ bi' = bi + 1
                  /\ summary'.failed_batches = summary.failed_batches + 1
            /\ pc \in {"edit", "update"} =>
                  /\ pc' = "issue" /\ ii' = ii + 1 /\ bi' = bi
                  /\ call.key \in DOMAIN results'.issues
                  /\ results'.issues[call.key].status = "FAILED"]_vars

\* C26 witness: an update answered 401 or 403 four times has raised inside
\* a run that is still going.
C26_Witness ==
    /\ pc = "update" /\ call.state = "raised"
    /\ call.denied /\ call.nFail = MAX_RETRIES + 1 /\ call.n429 = 0
    /\ exitCode = -1

\* The labels the remote holds for the issue with the given key.
RemoteLabels(key) ==
    LET n == CHOOSE n \in 1..Len(remote) : remote[n].key = key IN remote[n].labels

\* The keys listed more than once in the search result of the batch.
ListedTwice ==
    {issues[i].key : i \in {i \in 1..Len(issues) :
                               \E j \in 1..Len(issues) : j # i /\ issues[j].key = issues[i].key}}

C24_SumsWithDuplicates ==
    /\ \A m \in 1..Len(summary.batches) :
          summary.batches[m].result = "success" =>
              LET d == summary.batches[m].details IN
              d.total_issues = d.successful_issues + d.skipped_issues + d.failed_issues
    /\ JustCompleted =>
          /\ summary.batches[Len(summary.batches)].details.total_issues = Len(issues)
          /\ DOMAIN summary.batches[Len(summary.batches)].details.issues
                = {issues[k].key : k \in 1..Len(issues)}

====
